---- MODULE Spec2Model ----
(***************************************************************************)
(* AutocompleteComponent (autocomplete.component.ts): the query-dispatch   *)
(* and state-coordination engine of the type-ahead control.                *)
(*                                                                         *)
(* Strings are sequences of one-character strings, so that toLowerCase and *)
(* indexOf are computed.  A JavaScript value is a record [kind, id, str]:  *)
(* kind is its typeof class, id the identity of an object (=== on objects  *)
(* is identity) or the value of a number, str the content of a string or   *)
(* the `name` property of an object (<<>> when the property is absent or   *)
(* empty, both falsy).                                                     *)
(***************************************************************************)
EXTENDS Integers, Sequences, FiniteSets, TLC

\* ---------------------------------------------------------------- bounds
\* Promises of the remote collaborator that exist at the same time
\* (pending, or rejected and so never completed).
MaxInFlight == 2

\* ---------------------------------------------------------------- values
Obj(i, n) == [kind |-> "object", id |-> i, str |-> n]
Str(s) == [kind |-> "string", id |-> 0, str |-> s]
\* the number n, whose decimal text is s
Num(n, s) == [kind |-> "number", id |-> n, str |-> s]
Null == [kind |-> "null", id |-> 0, str |-> <<>>]
Undefined == [kind |-> "undefined", id |-> 0, str |-> <<>>]

\* typeof
TypeOf(v) == IF v.kind = "null" THEN "object" ELSE v.kind

\* JavaScript truthiness: if (x), !x
Truthy(v) ==
  CASE v.kind = "null" -> FALSE
    [] v.kind = "undefined" -> FALSE
    [] v.kind = "string" -> v.str # <<>>
    [] v.kind = "number" -> v.id # 0
    [] OTHER -> TRUE

\* An optional array: a field that is undefined until an array is stored.
NoList == [def |-> FALSE, items |-> <<>>]
Some(l) == [def |-> TRUE, items |-> l]

\* returnType before saveReturnType has stored a typeof.
NoType == "unset"

\* String.prototype.toLowerCase, on the characters the inputs use.
ToLowerChar(c) ==
  CASE c = "A" -> "a"
    [] c = "B" -> "b"
    [] c = "X" -> "x"
    [] OTHER -> c
toLowerCase(s) == [i \in 1..Len(s) |-> ToLowerChar(s[i])]

\* String.prototype.indexOf: the first position (from 0) of needle, or -1.
indexOf(hay, needle) ==
  LET at == {i \in 0..(Len(hay) - Len(needle)) :
               SubSeq(hay, i + 1, i + Len(needle)) = needle}
  IN IF at = {} THEN -1 ELSE CHOOSE i \in at : \A j \in at : i <= j

\* ---------------------------------------------------------------- inputs
O1 == Obj(1, <<"A", "b">>)
O2 == Obj(2, <<"b", "A">>)
O3 == Obj(3, <<"X", "a", "B">>)
O4 == Obj(4, <<>>)
S1 == Str(<<"a", "B">>)
N0 == Num(0, <<"0">>)

\* Text the user can have in the input element.
Texts == { <<>>, <<"a">>, <<"a", "B">> }
LocalTexts == Texts \cup { <<"z">> }

\* Arrays assigned to [source].
Arrays == { <<>>, <<O1, O2, O3>>, <<S1>>, <<O1, O4>>, <<N0>> }

\* Raw results the remote collaborator's promises resolve with.
Results == { <<>>, <<O1, O2, O3>>, <<S1>> }

\* Values written to [model] from outside.
ModelValues == { Null, O1, S1 }

\* [minChars] settings: no threshold, and the default.
DefaultMinChars == 2
MinCharsChoices == { 0, DefaultMinChars }

\* [filterCallback] settings: the default identity, and a transform that
\* drops the first raw element.
FilterCallbacks == { "identity", "tail" }

\* Errors thrown by the handlers.
NoError == "none"
ErrPrefetchService == "Service for prefetch is not defined in 'Source'"
ErrFetchService == "Service for fetch is not defined in 'Source'"
ErrNoDisplay == "You must provide displayItem or displayItemFn for local search."
ErrDisplayItem == "String to evaluate in displayItem was provided wrong. Better use displayItemFn"

VARIABLES
  \* configuration inputs, fixed for the life of the component
  minChars, doPrefetch, clearAfterSearch, displayItem, displayItemFn,
  filterCallback,
  \* autocompleteInput.nativeElement.value
  inputText,
  \* fields of the component
  service, storedItems, returnType, currentModel, value, query,
  autocompleteList, noSuggestions, requestsInQueue,
  \* promises returned by service.fetch that have not run their callback
  inflight,
  \* whether ngOnInit has run
  inited,
  \* the handler that ran last; what it emitted, the queries it sent to the
  \* service, the error it threw, the dispatch methods it entered, and the
  \* search it completed
  lastOp, emitted, calls, thrown, path, searched

config == <<minChars, doPrefetch, clearAfterSearch, displayItem,
            displayItemFn, filterCallback>>
fields == <<service, storedItems, returnType, currentModel, value, query,
            autocompleteList, noSuggestions, requestsInQueue>>
trace == <<emitted, calls, thrown, path, searched>>
vars == <<config, inputText, fields, inflight, inited, lastOp, trace>>

\* ------------------------------------------------- the component's state
\* The mutable fields as one record, so that a handler is an operator from
\* the state it starts in to the state it returns in.  The trace fields
\* (emitted, calls, thrown, path, searched) start empty in every handler.
\* searched: the search the handler completed, with the query it was for
\* and the number of candidates returned (the raw result of a promise, the
\* filtered list of a local filter).
NoSearch == [kind |-> "none", query |-> <<>>, count |-> 0]
Cur ==
  [service |-> service, storedItems |-> storedItems, returnType |-> returnType,
   currentModel |-> currentModel, value |-> value, query |-> query,
   autocompleteList |-> autocompleteList, noSuggestions |-> noSuggestions,
   requestsInQueue |-> requestsInQueue, inflight |-> inflight,
   emitted |-> <<>>, calls |-> <<>>, thrown |-> NoError, path |-> <<>>,
   searched |-> NoSearch]

\* EventEmitter.emit
emit(s, ev, v) == [s EXCEPT !.emitted = Append(@, [ev |-> ev, val |-> v])]

\* throw new Error(e)
throw(s, e) == [s EXCEPT !.thrown = e]

\* entry of a dispatch method
enter(s, method) == [s EXCEPT !.path = Append(@, method)]

completed(s, k, q, n) ==
  [s EXCEPT !.searched = [kind |-> k, query |-> q, count |-> n]]

\* The promise service.fetch(params) returns.  q is the "query" parameter;
\* prefetch sends none.  overtaken: a promise created later has already
\* run its callback.
Request(k, q) ==
  [kind |-> k, query |-> q, settled |-> "pending", overtaken |-> FALSE]

\* service.fetch(params).then(callback)
serviceFetch(s, k, q) ==
  [s EXCEPT !.inflight = Append(@, Request(k, q)),
            !.calls = Append(@, q)]

\* the [filterCallback] input applied to a raw result
applyFilterCallback(result) ==
  IF filterCallback = "identity" THEN result
  ELSE IF result = <<>> THEN <<>> ELSE Tail(result)

isQueryEmpty(q) == Len(q) <= 0

\* saveReturnType that keeps the kind once one is recorded
saveReturnType_FirstOnly(s, items) ==
  IF items.def /\ Len(items.items) > 0 /\ s.returnType = NoType
  THEN [s EXCEPT !.returnType = TypeOf(items.items[1])]
  ELSE s

\* saveReturnType(items)
saveReturnType(s, items) ==
  IF items.def /\ Len(items.items) > 0
  THEN [s EXCEPT !.returnType = TypeOf(items.items[1])]
  ELSE s

\* the model setter without the test of the kind
setModel_AlwaysEmit(s, v) ==
  IF v # s.currentModel
  THEN emit([s EXCEPT !.currentModel = v], "modelChange", v)
  ELSE s

\* the model setter taking an unset kind to match every value
setModel_UnsetKindMatches(s, v) ==
  IF v # s.currentModel
  THEN LET s1 == [s EXCEPT !.currentModel = v]
       IN IF v = Null \/ s.returnType = NoType \/ s.returnType = TypeOf(v)
          THEN emit(s1, "modelChange", v)
          ELSE s1
  ELSE s

\* set model(value)
setModel(s, v) ==
  IF v # s.currentModel
  THEN LET s1 == [s EXCEPT !.currentModel = v]
       IN IF v = Null \/ s.returnType = TypeOf(v)
          THEN emit(s1, "modelChange", v)
          ELSE s1
  ELSE s

\* set value(v) of AbstractValueAccessor
setValue(s, v) == [s EXCEPT !.value = v]

\* the [displayItemFn] input, when configured: the name of an object, the
\* text of a string
applyDisplayItemFn(item) == Str(item.str)

\* eval(displayItem) with displayItem = "item.name", and item.name
evalItemName(item) ==
  IF item.kind = "object" /\ item.str # <<>> THEN Str(item.str) ELSE Undefined

viewItem(item) ==
  IF displayItemFn THEN applyDisplayItemFn(item) ELSE evalItemName(item)

\* prefetch that empties the store and the flag before it tests the service
prefetch_ResetFirst(s0) ==
  LET s == [enter(s0, "prefetch") EXCEPT !.storedItems = Some(<<>>),
                                         !.noSuggestions = "false"]
  IN IF ~s.service THEN throw(s, ErrPrefetchService)
     ELSE serviceFetch(s, "prefetch", <<>>)

\* prefetch()
prefetch(s0) ==
  LET s == enter(s0, "prefetch")
  IN IF ~s.service THEN throw(s, ErrPrefetchService)
     ELSE serviceFetch([s EXCEPT !.storedItems = Some(<<>>),
                                 !.noSuggestions = "false"],
                       "prefetch", <<>>)

\* the callback prefetch() registers on its promise
prefetchThen(s, req, result) ==
  LET s1 == [s EXCEPT !.storedItems = Some(applyFilterCallback(result)),
                      !.noSuggestions = IF Len(result) = 0 THEN "true" ELSE "false"]
  IN completed(saveReturnType(s1, s1.storedItems), "prefetch", req.query,
               Len(result))

\* fetch that empties the list for every query it does not dispatch
fetch_ClearWhenShort(s0, force) ==
  LET s == enter(s0, "fetch")
  IN IF ~s.service THEN throw(s, ErrFetchService)
     ELSE LET s1 == [s EXCEPT !.query = inputText]
          IN IF force \/ (Len(s1.query) >= minChars /\ ~isQueryEmpty(s1.query))
             THEN serviceFetch(
                    [s1 EXCEPT !.noSuggestions = "false",
                               !.requestsInQueue = @ + 1],
                    "fetch", s1.query)
             ELSE [s1 EXCEPT !.autocompleteList = Some(<<>>)]

\* fetch that tests force and minChars before the empty query
fetch_ThresholdFirst(s0, force) ==
  LET s == enter(s0, "fetch")
  IN IF ~s.service THEN throw(s, ErrFetchService)
     ELSE LET s1 == [s EXCEPT !.query = inputText]
          IN IF force \/ Len(s1.query) >= minChars
             THEN serviceFetch(
                    [s1 EXCEPT !.noSuggestions = "false",
                               !.requestsInQueue = @ + 1],
                    "fetch", s1.query)
             ELSE IF isQueryEmpty(s1.query)
                  THEN [s1 EXCEPT !.autocompleteList = Some(<<>>)]
                  ELSE s1

\* fetch with the increment of requestsInQueue left out
fetch_NoIncrement(s0, force) ==
  LET s == enter(s0, "fetch")
  IN IF ~s.service THEN throw(s, ErrFetchService)
     ELSE LET s1 == [s EXCEPT !.query = inputText]
          IN IF isQueryEmpty(s1.query)
             THEN [s1 EXCEPT !.autocompleteList = Some(<<>>)]
             ELSE IF force \/ Len(s1.query) >= minChars
                  THEN serviceFetch([s1 EXCEPT !.noSuggestions = "false"],
                                    "fetch", s1.query)
                  ELSE s1

fetch(s0, force) ==
  LET s == enter(s0, "fetch")
  IN IF ~s.service THEN throw(s, ErrFetchService)
     ELSE LET s1 == [s EXCEPT !.query = inputText]
          IN IF isQueryEmpty(s1.query)
             THEN [s1 EXCEPT !.autocompleteList = Some(<<>>)]
             ELSE IF force \/ Len(s1.query) >= minChars
                  THEN serviceFetch(
                         [s1 EXCEPT !.noSuggestions = "false",
                                    !.requestsInQueue = @ + 1],
                         "fetch", s1.query)
                  ELSE s1

\* fetchThen with the decrement of requestsInQueue left out
fetchThen_NoDecrement(s, req, result) ==
  LET s1 == [s EXCEPT !.autocompleteList = Some(applyFilterCallback(result)),
                      !.noSuggestions = IF Len(result) = 0 THEN "true" ELSE "false"]
  IN completed(saveReturnType(s1, s1.autocompleteList), "fetch", req.query,
               Len(result))

\* fetchThen that discards the result of a superseded request
fetchThen_DropStale(s, req, result) ==
  IF req.overtaken
  THEN [s EXCEPT !.requestsInQueue = @ - 1]
  ELSE LET s1 == [s EXCEPT !.requestsInQueue = @ - 1,
                           !.autocompleteList = Some(applyFilterCallback(result)),
                           !.noSuggestions = IF Len(result) = 0 THEN "true" ELSE "false"]
       IN completed(saveReturnType(s1, s1.autocompleteList), "fetch",
                    req.query, Len(result))

\* the callback fetch() registers on its promise
fetchThen(s, req, result) ==
  LET s1 == [s EXCEPT !.requestsInQueue = @ - 1,
                      !.autocompleteList = Some(applyFilterCallback(result)),
                      !.noSuggestions = IF Len(result) = 0 THEN "true" ELSE "false"]
  IN completed(saveReturnType(s1, s1.autocompleteList), "fetch", req.query,
               Len(result))

\* filterPredicate that compares with the query as typed
filterPredicate_QueryAsTyped(item, q) ==
  LET formatedItem == IF displayItemFn
                      THEN toLowerCase(applyDisplayItemFn(item).str)
                      ELSE toLowerCase(viewItem(item).str)
  IN indexOf(formatedItem, q) > -1

\* the predicate filterStoredItems() hands to Array.filter
filterPredicate(item, q) ==
  LET formatedItem == IF displayItemFn
                      THEN toLowerCase(applyDisplayItemFn(item).str)
                      ELSE toLowerCase(viewItem(item).str)
  IN indexOf(formatedItem, toLowerCase(q)) > -1

\* Array.prototype.filter with filterPredicate
RECURSIVE filterItems(_, _)
filterItems(items, q) ==
  IF items = <<>> THEN <<>>
  ELSE IF filterPredicate(Head(items), q)
       THEN <<Head(items)>> \o filterItems(Tail(items), q)
       ELSE filterItems(Tail(items), q)

\* filterStoredItems that raises the empty-flag for an empty query too
filterStoredItems_FlagIgnoresQuery(s0) ==
  LET s == enter(s0, "filterStoredItems")
  IN IF ~displayItem /\ ~displayItemFn THEN throw(s, ErrNoDisplay)
     ELSE LET s1 == [s EXCEPT !.query = inputText]
          IN IF Len(s1.query) < minChars THEN s1
             ELSE IF s1.storedItems.def
                  THEN IF \E i \in 1..Len(s1.storedItems.items) :
                            ~Truthy(viewItem(s1.storedItems.items[i]))
                       THEN throw(s1, ErrDisplayItem)
                       ELSE LET l == filterItems(s1.storedItems.items, s1.query)
                            IN completed(
                                 [s1 EXCEPT !.autocompleteList = Some(l),
                                            !.noSuggestions =
                                              IF Len(l) = 0 THEN "true" ELSE "false"],
                                 "filter", s1.query, Len(l))
                  ELSE completed([s1 EXCEPT !.autocompleteList = Some(<<>>),
                                            !.noSuggestions = "false"],
                                 "filter", s1.query, 0)

filterStoredItems(s0) ==
  LET s == enter(s0, "filterStoredItems")
  IN IF ~displayItem /\ ~displayItemFn THEN throw(s, ErrNoDisplay)
     ELSE LET s1 == [s EXCEPT !.query = inputText]
          IN IF Len(s1.query) < minChars THEN s1
             ELSE IF s1.storedItems.def
                  THEN IF \E i \in 1..Len(s1.storedItems.items) :
                            ~Truthy(viewItem(s1.storedItems.items[i]))
                       THEN throw(s1, ErrDisplayItem)
                       ELSE LET l == filterItems(s1.storedItems.items, s1.query)
                            IN completed(
                                 [s1 EXCEPT !.autocompleteList = Some(l),
                                            !.noSuggestions =
                                              IF Len(s1.query) > 0 /\ Len(l) = 0
                                              THEN "true" ELSE "false"],
                                 "filter", s1.query, Len(l))
                  ELSE completed([s1 EXCEPT !.autocompleteList = Some(<<>>),
                                            !.noSuggestions = "false"],
                                 "filter", s1.query, 0)

\* clearValue that resets the model only
clearValue_ModelOnly(s) == setModel(s, Null)

\* formControlItem.reset(), when a form control is bound, writes null to
\* the value, which the assignment of "" that follows replaces.
clearValue(s) == setValue(setModel(s, Null), Str(<<>>))

autocompleteSelected(s, selected) ==
  LET s1 == setModel(setValue([s EXCEPT !.query = inputText], selected), selected)
      s2 == IF Truthy(selected) THEN emit(s1, "optionSelected", selected) ELSE s1
  IN IF clearAfterSearch THEN clearValue(s2) ELSE s2

\* doSearchViaService that looks at the service only
doSearchViaService_IgnoresPrefetch(s) == s.service

doSearchViaService(s) == s.service /\ ~doPrefetch

onKeyCallback(s) ==
  IF doSearchViaService(s) THEN fetch(s, FALSE) ELSE filterStoredItems(s)

\* onKey that dispatches without clearing
onKey_NoClear(s, keyCode) ==
  IF keyCode < 37 \/ keyCode > 40 THEN onKeyCallback(s) ELSE s

\* onKey($event)
onKey(s, keyCode) ==
  IF keyCode < 37 \/ keyCode > 40
  THEN onKeyCallback(IF inputText = <<>> THEN clearValue(s) ELSE s)
  ELSE s

onFocus(s) ==
  IF doSearchViaService(s) THEN fetch(s, FALSE) ELSE filterStoredItems(s)

ngOnInit(s) == IF doPrefetch THEN prefetch(s) ELSE s

isAutocompleteService(src) == src.tag = "service"

\* set source(value)
setSource(s, src) ==
  IF isAutocompleteService(src) THEN [s EXCEPT !.service = TRUE]
  ELSE IF src.tag = "array"
       THEN LET s1 == [s EXCEPT !.storedItems = Some(src.items)]
            IN saveReturnType(s1, s1.storedItems)
       ELSE s

\* ---------------------------------------------------------------- actions
\* What lastOp records of a handler: its name, the force argument of
\* fetch, the key code of a key press, the value selected or assigned, the
\* variant of the value bound to [source], and for a promise callback the
\* promise and the raw result it resolved with.
NoRequest == [kind |-> "none", query |-> <<>>, settled |-> "none", overtaken |-> FALSE]
Op(name) ==
  [op |-> name, force |-> FALSE, key |-> 0, val |-> Undefined,
   source |-> "none", req |-> NoRequest, result |-> <<>>]

\* The state a handler returns in becomes the next state.
Apply(s, op) ==
  \E r \in {s} :
    /\ Len(r.inflight) <= MaxInFlight
    /\ service' = r.service
    /\ storedItems' = r.storedItems
    /\ returnType' = r.returnType
    /\ currentModel' = r.currentModel
    /\ value' = r.value
    /\ query' = r.query
    /\ autocompleteList' = r.autocompleteList
    /\ noSuggestions' = r.noSuggestions
    /\ requestsInQueue' = r.requestsInQueue
    /\ inflight' = r.inflight
    /\ emitted' = r.emitted
    /\ calls' = r.calls
    /\ thrown' = r.thrown
    /\ path' = r.path
    /\ searched' = r.searched
    /\ lastOp' = op
    /\ UNCHANGED <<config, inputText>>

\* [source] bindings: the service, an array, or a value that is neither
ServiceSource == [tag |-> "service", items |-> <<>>]
OtherSource == [tag |-> "other", items |-> <<>>]
ArraySources == {[tag |-> "array", items |-> a] : a \in Arrays}

\* [source] is bound to one of the values S
SetSource(S) ==
  \E src \in S :
    /\ Apply(setSource(Cur, src), [Op("source") EXCEPT !.source = src.tag])
    /\ UNCHANGED inited

SetModel ==
  \E v \in ModelValues :
    /\ Apply(setModel(Cur, v), [Op("model") EXCEPT !.val = v])
    /\ UNCHANGED inited

NgOnInit ==
  /\ ~inited
  /\ inited' = TRUE
  /\ Apply(ngOnInit(Cur), Op("ngOnInit"))

\* The user edits the text of the input element to one of the texts T.
SetInputText(T) ==
  \E t \in T :
    /\ inited
    /\ t # inputText
    /\ inputText' = t
    /\ lastOp' = Op("input")
    /\ emitted' = <<>>
    /\ calls' = <<>>
    /\ thrown' = NoError
    /\ path' = <<>>
    /\ searched' = NoSearch
    /\ UNCHANGED <<config, fields, inflight, inited>>

\* keyup: an arrow key (37..40) or another key
KeyCodes == {13, 37, 40}

OnKey ==
  \E k \in KeyCodes :
    /\ inited
    /\ Apply(onKey(Cur, k), [Op("onKey") EXCEPT !.key = k])
    /\ UNCHANGED inited

OnFocus ==
  /\ inited
  /\ Apply(onFocus(Cur), Op("onFocus"))
  /\ UNCHANGED inited

\* fetch(force) called from the template or the host
Fetch ==
  \E force \in BOOLEAN :
    /\ inited
    /\ Apply(fetch(Cur, force), [Op("fetch") EXCEPT !.force = force])
    /\ UNCHANGED inited

FilterStoredItems ==
  /\ inited
  /\ Apply(filterStoredItems(Cur), Op("filterStoredItems"))
  /\ UNCHANGED inited

Prefetch ==
  /\ inited
  /\ Apply(prefetch(Cur), Op("prefetch"))
  /\ UNCHANGED inited

ClearValue ==
  /\ inited
  /\ Apply(clearValue(Cur), Op("clearValue"))
  /\ UNCHANGED inited

\* The user picks an option of the panel: a candidate of the list, or an
\* option without value.  The text of the input element stays under the
\* control of SetInputText.
AutocompleteSelected ==
  /\ inited
  /\ autocompleteList.def
  /\ \E sel \in {autocompleteList.items[i] : i \in 1..Len(autocompleteList.items)}
                  \cup {Null} :
       Apply(autocompleteSelected(Cur, sel),
             [Op("autocompleteSelected") EXCEPT !.val = sel])
  /\ UNCHANGED inited

\* inflight without promise i; the promises created before it are overtaken
Complete(i) ==
  [j \in 1..(Len(inflight) - 1) |->
     IF j < i THEN [inflight[j] EXCEPT !.overtaken = TRUE] ELSE inflight[j + 1]]

\* A pending promise resolves with a raw result and its callback runs.
Resolve ==
  \E i \in 1..Len(inflight) : \E result \in Results :
    /\ inflight[i].settled = "pending"
    /\ LET s == [Cur EXCEPT !.inflight = Complete(i)]
           op == [Op("then") EXCEPT !.req = inflight[i], !.result = result]
       IN IF inflight[i].kind = "fetch"
          THEN Apply(fetchThen(s, inflight[i], result), op)
          ELSE Apply(prefetchThen(s, inflight[i], result), op)
    /\ UNCHANGED inited

\* a rejection that runs the callback, as a result without candidates would
Reject_RunsCallback ==
  \E i \in 1..Len(inflight) :
    /\ inflight[i].settled = "pending"
    /\ LET s == [Cur EXCEPT !.inflight[i].settled = "rejected"]
           op == [Op("reject") EXCEPT !.req = inflight[i]]
       IN IF inflight[i].kind = "fetch"
          THEN Apply(fetchThen(s, inflight[i], <<>>), op)
          ELSE Apply(prefetchThen(s, inflight[i], <<>>), op)
    /\ UNCHANGED inited

\* A pending promise rejects: no callback is registered for that.
Reject ==
  \E i \in 1..Len(inflight) :
    /\ inflight[i].settled = "pending"
    /\ Apply([Cur EXCEPT !.inflight[i].settled = "rejected"],
             [Op("reject") EXCEPT !.req = inflight[i]])
    /\ UNCHANGED inited

\* [displayItem] = "item.name" configured or not, [displayItemFn] configured or not
DisplayChoices == {<<FALSE, FALSE>>, <<TRUE, FALSE>>, <<FALSE, TRUE>>}

Init ==
  /\ minChars \in MinCharsChoices
  /\ doPrefetch \in BOOLEAN
  /\ clearAfterSearch \in BOOLEAN
  /\ \E d \in DisplayChoices : displayItem = d[1] /\ displayItemFn = d[2]
  /\ filterCallback \in FilterCallbacks
  /\ inputText = <<>>
  /\ service = FALSE
  /\ storedItems = NoList
  /\ returnType = NoType
  /\ currentModel = Undefined
  /\ value = Str(<<>>)
  /\ query = <<>>
  /\ autocompleteList = NoList
  /\ noSuggestions = "undefined"
  /\ requestsInQueue = 0
  /\ inflight = <<>>
  /\ inited = FALSE
  /\ lastOp = Op("new")
  /\ emitted = <<>>
  /\ calls = <<>>
  /\ thrown = NoError
  /\ path = <<>>
  /\ searched = NoSearch

\* ---------------------------------------------------------- specifications
\* The remote path: a service is bound, queries are dispatched on key
\* presses, focus and fetch(force), their promises resolve in any order,
\* and the user selects candidates in between.
InitRemote ==
  /\ Init
  /\ ~doPrefetch
  /\ displayItem
  /\ ~displayItemFn

Next ==
  \/ SetSource({ServiceSource})
  \/ NgOnInit
  \/ SetInputText(Texts)
  \/ OnKey
  \/ OnFocus
  \/ Fetch
  \/ FilterStoredItems
  \/ AutocompleteSelected
  \/ Resolve

Spec == InitRemote /\ [][Next]_vars

\* The local path: arrays are bound, no service; the stored items are
\* filtered on key presses, focus and filterStoredItems().
InitLocal ==
  /\ Init
  /\ ~doPrefetch
  /\ ~clearAfterSearch
  /\ filterCallback = "identity"

NextLocal ==
  \/ SetSource(ArraySources \cup {OtherSource})
  \/ NgOnInit
  \/ SetInputText(LocalTexts)
  \/ OnKey
  \/ OnFocus
  \/ FilterStoredItems

SpecLocal == InitLocal /\ [][NextLocal]_vars

\* Both paths and the choice between them: the service and an array are
\* bound in any order, with and without [doPrefetch]; prefetch() seeds the
\* stored items; key presses and focus dispatch through the chosen path.
InitPath ==
  /\ Init
  /\ ~clearAfterSearch
  /\ filterCallback = "identity"
  /\ displayItem
  /\ ~displayItemFn

NextPath ==
  \/ SetSource({ServiceSource, [tag |-> "array", items |-> <<O1, O2, O3>>]})
  \/ NgOnInit
  \/ SetInputText(Texts)
  \/ OnKey
  \/ OnFocus
  \/ FilterStoredItems
  \/ Prefetch
  \/ Resolve

SpecPath == InitPath /\ [][NextPath]_vars

\* Prefetch with the service as the only source: storedItems is defined
\* exactly when prefetch() has been performed, by ngOnInit under
\* [doPrefetch] or by a call of the host.
NextPrefetch ==
  \/ SetSource({ServiceSource})
  \/ NgOnInit
  \/ SetInputText(Texts)
  \/ OnKey
  \/ OnFocus
  \/ Prefetch
  \/ Resolve

SpecPrefetch == InitPath /\ [][NextPrefetch]_vars

\* The configuration errors: the dispatch methods are called with and
\* without a service, with and without a way to display a candidate, over
\* arrays with and without a candidate that has no name.
InitErrors ==
  /\ Init
  /\ ~doPrefetch
  /\ ~clearAfterSearch
  /\ filterCallback = "identity"

ErrorSources ==
  {ServiceSource, [tag |-> "array", items |-> <<O1, O2, O3>>],
   [tag |-> "array", items |-> <<O1, O4>>]}

NextErrors ==
  \/ SetSource(ErrorSources)
  \/ NgOnInit
  \/ SetInputText(Texts)
  \/ SetModel
  \/ Fetch
  \/ Prefetch
  \/ FilterStoredItems

SpecErrors == InitErrors /\ [][NextErrors]_vars

\* Key presses: the input is typed into and emptied while a model is held,
\* with a service or an array bound.
NextKeys ==
  \/ SetSource({ServiceSource, [tag |-> "array", items |-> <<O1, O2, O3>>]})
  \/ NgOnInit
  \/ SetInputText(Texts)
  \/ SetModel
  \/ OnKey

SpecKeys == InitPath /\ [][NextKeys]_vars

\* Rejections: the promises of dispatched queries resolve or reject.
InitReject ==
  /\ InitRemote
  /\ ~clearAfterSearch
  /\ filterCallback = "identity"

NextReject ==
  \/ SetSource({ServiceSource})
  \/ NgOnInit
  \/ SetInputText(Texts)
  \/ OnKey
  \/ OnFocus
  \/ Resolve
  \/ Reject

SpecReject == InitReject /\ [][NextReject]_vars

\* The model: values are written to [model] from outside, candidates are
\* selected, the control is cleared.
InitModel ==
  /\ Init
  /\ ~doPrefetch
  /\ minChars = 0
  /\ filterCallback = "identity"
  /\ displayItemFn

NextModel ==
  \/ SetSource(ArraySources \cup {OtherSource})
  \/ NgOnInit
  \/ SetModel
  \/ OnFocus
  \/ AutocompleteSelected
  \/ ClearValue

SpecModel == InitModel /\ [][NextModel]_vars

\* ------------------------------------------------------------ properties
Bool(b) == IF b THEN "true" ELSE "false"

\* No promise of a query fetch is left that has not run its callback.
AllFetchesResolved ==
  \A i \in 1..Len(inflight) : inflight[i].kind # "fetch"

\* C1: once every promise dispatched by fetch() has resolved, in whatever
\* order and with whatever handlers in between, requestsInQueue is 0.
C1_QueueReturnsToZero == AllFetchesResolved => requestsInQueue = 0

\* Two dispatched fetches have resolved in the opposite order of their
\* dispatch and none is left.
C1_Witness ==
  /\ lastOp.op = "then"
  /\ lastOp.req.kind = "fetch"
  /\ lastOp.req.overtaken
  /\ AllFetchesResolved
  /\ requestsInQueue = 0

\* C2: requestsInQueue is never negative.
C2_QueueNeverNegative == requestsInQueue >= 0

\* A fetch has completed before one that was dispatched earlier, which is
\* still pending.
C2_Witness ==
  /\ lastOp.op = "then"
  /\ lastOp.req.kind = "fetch"
  /\ Len(inflight) >= 1
  /\ inflight[1].overtaken
  /\ requestsInQueue = 1

\* C3: the callback of every resolved query fetch replaces the candidate
\* list by filterCallback(raw result) and sets the empty-flag from the raw
\* result, whatever was dispatched, completed, typed or selected since its
\* dispatch.
C3_CompletionAlwaysApplied ==
  (lastOp.op = "then" /\ lastOp.req.kind = "fetch") =>
    /\ autocompleteList.def
    /\ autocompleteList.items =
         (IF filterCallback = "identity" \/ lastOp.result = <<>>
          THEN lastOp.result ELSE Tail(lastOp.result))
    /\ noSuggestions = Bool(lastOp.result = <<>>)

\* The fetch for "a" was dispatched before the fetch for "aB" and resolved
\* after it: the list is the result for "a", the query is "aB".
C3_Witness ==
  /\ lastOp.op = "then"
  /\ lastOp.req.kind = "fetch"
  /\ lastOp.req.query = <<"a">>
  /\ lastOp.req.overtaken
  /\ query = <<"a", "B">>
  /\ inflight = <<>>
  /\ lastOp.result = <<O1, O2, O3>>
  /\ autocompleteList = Some(<<O1, O2, O3>>)

\* C4 as stated: the empty-flag is true only if the most recently completed
\* fetch or local filter returned zero candidates for a non-empty query.
\* A step that completes a search may set the flag only for such a search;
\* any other step may leave it true but not make it true.
C4_FlagOnlyAfterEmptyQuerySearch ==
  [][noSuggestions' = "true" =>
       IF searched' # NoSearch
       THEN /\ searched'.kind \in {"fetch", "filter"}
            /\ searched'.count = 0
            /\ searched'.query # <<>>
       ELSE noSuggestions = "true"]_vars

\* C4 (amended): the empty-flag is true only if the most recently completed
\* fetch, prefetch or local filter returned zero candidates, where the
\* query of a fetch or of a local filter was non-empty (a prefetch has no
\* query).
C4_FlagOnlyAfterEmptySearch ==
  [][noSuggestions' = "true" =>
       IF searched' # NoSearch
       THEN /\ searched'.count = 0
            /\ searched'.kind \in {"fetch", "filter"} => searched'.query # <<>>
       ELSE noSuggestions = "true"]_vars

\* The flag is true after a prefetch that returned nothing, and stays true
\* while the user types.
C4_Witness ==
  /\ noSuggestions = "true"
  /\ lastOp.op = "input"
  /\ storedItems = Some(<<>>)
  /\ autocompleteList = NoList
  /\ inflight = <<>>

\* C5: a query shorter than minChars.  fetch() without force sends nothing
\* to the service, leaves requestsInQueue as it is and leaves the list as it
\* is unless the query is empty, when it empties the list;
\* filterStoredItems() leaves the list and the empty-flag as they are.
C5_ShortQueryNotDispatched ==
  [][Len(inputText) < minChars /\ thrown' = NoError =>
       /\ (path' = <<"fetch">> /\ ~lastOp'.force) =>
            /\ calls' = <<>>
            /\ inflight' = inflight
            /\ requestsInQueue' = requestsInQueue
            /\ autocompleteList' =
                 (IF inputText = <<>> THEN Some(<<>>) ELSE autocompleteList)
       /\ path' = <<"filterStoredItems">> =>
            /\ calls' = <<>>
            /\ autocompleteList' = autocompleteList
            /\ noSuggestions' = noSuggestions]_vars

\* fetch() without force found "a", shorter than the default minChars, and
\* kept the candidates a completed request had stored, with a request
\* still outstanding.
C5_Witness ==
  /\ lastOp.op = "fetch"
  /\ ~lastOp.force
  /\ minChars = DefaultMinChars
  /\ query = <<"a">>
  /\ calls = <<>>
  /\ autocompleteList = Some(<<O1, O2, O3>>)
  /\ requestsInQueue = 1

\* C6: fetch() with an empty query, forced or not and whatever minChars is,
\* sends nothing to the service, leaves requestsInQueue as it is and sets
\* the list to the empty list; every query fetch() sends is non-empty.
C6_EmptyQueryNeverFetched ==
  [][/\ (path' = <<"fetch">> /\ thrown' = NoError /\ inputText = <<>>) =>
          /\ calls' = <<>>
          /\ inflight' = inflight
          /\ requestsInQueue' = requestsInQueue
          /\ autocompleteList' = Some(<<>>)
     /\ path' = <<"fetch">> => \A i \in 1..Len(calls') : calls'[i] # <<>>]_vars

\* fetch(true) with minChars = 0 found the input empty: nothing was sent
\* and the candidates of the completed request were dropped.
C6_Witness ==
  /\ lastOp.op = "fetch"
  /\ lastOp.force
  /\ minChars = 0
  /\ inputText = <<>>
  /\ query = <<>>
  /\ calls = <<>>
  /\ path = <<"fetch">>
  /\ thrown = NoError
  /\ autocompleteList = Some(<<>>)
  /\ returnType = "object"
  /\ requestsInQueue = 1

\* Two characters that differ at most in case.
SameLetter(c, d) ==
  \/ c = d
  \/ {c, d} \in {{"a", "A"}, {"b", "B"}, {"x", "X"}}

\* text contains q, case ignored: q lies at some position of text.
ContainsIgnoringCase(text, q) ==
  \E p \in 0..(Len(text) - Len(q)) :
    \A k \in 1..Len(q) : SameLetter(text[p + k], q[k])

\* The candidates of items, in their order, whose display string contains q.
Matching(items, q) ==
  LET Match(item) == ContainsIgnoringCase(viewItem(item).str, q)
  IN SelectSeq(items, Match)

\* C7: for a non-empty local collection and a query Q of at least minChars
\* characters, filterStoredItems() (when every display string resolves)
\* sets the list to the stored candidates, in their order, whose display
\* string contains Q case-insensitively, and the empty-flag to (Q is
\* non-empty and the result is empty); run again right after, with Q
\* unchanged, it leaves list and flag as they are.
C7_LocalFilterExact ==
  [][(/\ path' = <<"filterStoredItems">>
      /\ thrown' = NoError
      /\ Len(inputText) >= minChars
      /\ storedItems.def
      /\ storedItems.items # <<>>) =>
       /\ autocompleteList' = Some(Matching(storedItems.items, inputText))
       /\ noSuggestions' =
            Bool(inputText # <<>> /\ Matching(storedItems.items, inputText) = <<>>)
       /\ (searched.kind = "filter" /\ query = inputText) =>
            /\ autocompleteList' = autocompleteList
            /\ noSuggestions' = noSuggestions]_vars

\* "aB" filtered <<Ab, bA, XaB>> to <<Ab, XaB>>: the matches differ from
\* the query in case and the candidate between them is left out.
C7_Witness ==
  /\ path = <<"filterStoredItems">>
  /\ thrown = NoError
  /\ query = <<"a", "B">>
  /\ storedItems = Some(<<O1, O2, O3>>)
  /\ autocompleteList = Some(<<O1, O3>>)
  /\ noSuggestions = "false"

\* C8: assigning the model a value that differs from the current model
\* stores it; modelChange is emitted for the assignment exactly when the
\* value is null or its typeof equals returnType.  Assigning the value
\* already held changes nothing and emits nothing.
C8_ModelAssignment ==
  [][lastOp'.op = "model" =>
       LET v == lastOp'.val
       IN IF v # currentModel
          THEN /\ currentModel' = v
               /\ emitted' =
                    (IF v.kind = "null" \/ v.kind = returnType
                     THEN <<[ev |-> "modelChange", val |-> v]>>
                     ELSE <<>>)
          ELSE /\ currentModel' = currentModel
               /\ emitted' = <<>>]_vars

\* A string was assigned while the observed kind is "object": it is the
\* model and nothing was emitted.
C8_Witness ==
  /\ lastOp.op = "model"
  /\ lastOp.val = S1
  /\ returnType = "object"
  /\ currentModel = S1
  /\ emitted = <<>>

\* C9: autocompleteSelected sets the value and the model to the selected
\* candidate (a model that changes to a matching kind is notified as that
\* candidate first); with clearAfterSearch the model is null and the value
\* empty when the handler returns, without it both are the candidate.
C9_SelectionSetsModelAndValue ==
  [][lastOp'.op = "autocompleteSelected" =>
       LET sel == lastOp'.val
       IN /\ (sel # currentModel /\ (sel.kind = "null" \/ sel.kind = returnType)) =>
               /\ Len(emitted') >= 1
               /\ emitted'[1] = [ev |-> "modelChange", val |-> sel]
          /\ IF clearAfterSearch
             THEN currentModel' = Null /\ value' = Str(<<>>)
             ELSE currentModel' = sel /\ value' = sel]_vars

\* A candidate was selected with clearAfterSearch: the notifications carry
\* it, and the control is cleared.
C9_Witness ==
  /\ lastOp.op = "autocompleteSelected"
  /\ lastOp.val = O2
  /\ clearAfterSearch
  /\ currentModel = Null
  /\ value = Str(<<>>)
  /\ emitted = <<[ev |-> "modelChange", val |-> O2],
                 [ev |-> "optionSelected", val |-> O2],
                 [ev |-> "modelChange", val |-> Null]>>

\* A key press outside the arrow keys, or a focus event.
Dispatching ==
  \/ lastOp.op = "onFocus"
  \/ lastOp.op = "onKey" /\ (lastOp.key < 37 \/ lastOp.key > 40)

\* C10: key presses and focus dispatch through fetch() exactly when a
\* service is bound and doPrefetch is false; otherwise they dispatch
\* through filterStoredItems() and send nothing to the service.
C10_PathSelection ==
  Dispatching =>
    IF service /\ ~doPrefetch
    THEN path = <<"fetch">>
    ELSE path = <<"filterStoredItems">> /\ calls = <<>>

\* With a service bound and doPrefetch set, a key press filtered the
\* stored items.
C10_Witness ==
  /\ lastOp.op = "onKey"
  /\ lastOp.key = 13
  /\ service
  /\ doPrefetch
  /\ path = <<"filterStoredItems">>
  /\ calls = <<>>
  /\ searched.kind = "filter"

\* C11 as stated: once prefetch() has been performed, every key press and
\* focus event dispatches through filterStoredItems() and sends nothing to
\* the service.  (Under SpecPrefetch storedItems is defined exactly when
\* prefetch() has been performed.)
C11_LocalAfterAnyPrefetch ==
  (storedItems.def /\ Dispatching) =>
    path = <<"filterStoredItems">> /\ calls = <<>>

\* C11 (amended): once prefetch() has been performed and doPrefetch is set,
\* every key press and focus event dispatches through filterStoredItems()
\* and sends nothing to the service.
C11_LocalAfterRequestedPrefetch ==
  (storedItems.def /\ doPrefetch /\ Dispatching) =>
    path = <<"filterStoredItems">> /\ calls = <<>>

\* The prefetch of ngOnInit has completed and a focus event filtered what
\* it stored.
C11_Witness ==
  /\ doPrefetch
  /\ service
  /\ lastOp.op = "onFocus"
  /\ storedItems = Some(<<O1, O2, O3>>)
  /\ inflight = <<>>
  /\ path = <<"filterStoredItems">>
  /\ calls = <<>>
  /\ autocompleteList = Some(<<O1, O2, O3>>)

\* C12 as stated: the variant of the value last bound to [source] is the
\* active one; a key press or focus event that follows the binding of an
\* array filters the array and sends nothing to a service bound earlier.
C12_LastSourceActive ==
  [][(lastOp.op = "source" /\ lastOp.source = "array" /\ Dispatching')
       => (path' = <<"filterStoredItems">> /\ calls' = <<>>)]_vars

\* C13 as stated: requestsInQueue equals the number of calls of
\* service.fetch that were made and whose promise has not completed, the
\* call prefetch() makes included.
C13_QueueCountsRemoteCalls == requestsInQueue = Len(inflight)

\* C14 as stated: a selection emits optionSelected exactly once, carrying
\* the selected value, when that value is not null, whatever it is (the
\* empty string, 0 and false included), and does not emit it when the
\* value is null.
C14_OptionSelectedIffNonNull ==
  lastOp.op = "autocompleteSelected" =>
    LET sel == lastOp.val
        n == Cardinality({i \in 1..Len(emitted) : emitted[i].ev = "optionSelected"})
    IN IF sel # Null
       THEN /\ n = 1
            /\ \E i \in 1..Len(emitted) :
                 emitted[i] = [ev |-> "optionSelected", val |-> sel]
       ELSE n = 0

\* The candidate list the last handler obtained: the copy of an array
\* bound to [source], or what filterCallback made of the result a prefetch
\* or fetch promise resolved with; empty when it obtained none.
ObtainedList ==
  IF lastOp.op = "source" /\ lastOp.source = "array" THEN storedItems.items
  ELSE IF lastOp.op = "then"
       THEN IF lastOp.req.kind = "prefetch" THEN storedItems.items
            ELSE autocompleteList.items
       ELSE <<>>

\* C15 as stated: returnType is set by the first non-empty list obtained,
\* to the typeof of its first element, and no later list changes it.
C15_KindFixedByFirstList ==
  [][returnType' =
       IF returnType = NoType /\ ObtainedList' # <<>>
       THEN TypeOf(ObtainedList'[1])
       ELSE returnType]_vars

\* C15 (amended): returnType is the typeof of the first element of the
\* most recent non-empty list obtained; empty lists and every other
\* handler leave it as it was.
C15_KindFollowsLatestList ==
  [][returnType' =
       IF ObtainedList' # <<>>
       THEN TypeOf(ObtainedList'[1])
       ELSE returnType]_vars

\* A fetch delivered strings after an object had been selected from an
\* earlier list of the kind "object": the kind is now "string".
C15_Witness ==
  /\ lastOp.op = "then"
  /\ lastOp.req.kind = "fetch"
  /\ autocompleteList = Some(<<S1>>)
  /\ currentModel = O1
  /\ returnType = "string"

\* C16: fetch() and prefetch() throw exactly when no service is bound;
\* filterStoredItems() throws when neither displayItem nor displayItemFn
\* is set, and when a stored candidate it has to filter has no display
\* string.  A handler that throws leaves autocompleteList, noSuggestions,
\* requestsInQueue and the model as they were and sends nothing to the
\* service.
C16_ConfigurationErrors ==
  [][/\ lastOp'.op = "fetch" => (thrown' = ErrFetchService <=> ~service)
     /\ lastOp'.op = "prefetch" => (thrown' = ErrPrefetchService <=> ~service)
     /\ lastOp'.op = "filterStoredItems" =>
          /\ thrown' = ErrNoDisplay <=> (~displayItem /\ ~displayItemFn)
          /\ thrown' = ErrDisplayItem <=>
               /\ displayItem \/ displayItemFn
               /\ Len(inputText) >= minChars
               /\ storedItems.def
               /\ \E i \in 1..Len(storedItems.items) :
                    ~Truthy(viewItem(storedItems.items[i]))
     /\ (lastOp'.op \in {"fetch", "prefetch", "filterStoredItems", "ngOnInit"}
         /\ thrown' # NoError) =>
          /\ autocompleteList' = autocompleteList
          /\ noSuggestions' = noSuggestions
          /\ requestsInQueue' = requestsInQueue
          /\ currentModel' = currentModel
          /\ inflight' = inflight
          /\ calls' = <<>>]_vars

\* filterStoredItems() met the candidate without a name while a list, a
\* flag and a model from earlier were in place.
C16_Witness ==
  /\ lastOp.op = "filterStoredItems"
  /\ thrown = ErrDisplayItem
  /\ storedItems = Some(<<O1, O4>>)
  /\ autocompleteList = Some(<<O1, O2, O3>>)
  /\ noSuggestions = "false"
  /\ currentModel = O1

\* C17: a key press with a key code from 37 to 40 changes no field,
\* enters no dispatch method and sends nothing to the service.  Any other
\* key press enters the dispatch method doSearchViaService selects; when
\* the input is empty the model is null and the value empty afterwards
\* (whatever the dispatch method did), when the input is not empty model
\* and value are as before and nothing is emitted.
C17_KeyPress ==
  [][lastOp'.op = "onKey" =>
       IF lastOp'.key >= 37 /\ lastOp'.key <= 40
       THEN /\ UNCHANGED fields
            /\ path' = <<>>
            /\ calls' = <<>>
            /\ emitted' = <<>>
       ELSE /\ path' = <<IF service /\ ~doPrefetch THEN "fetch"
                         ELSE "filterStoredItems">>
            /\ IF inputText = <<>>
               THEN /\ currentModel' = Null
                    /\ value' = Str(<<>>)
                    /\ emitted' =
                         (IF currentModel # Null
                          THEN <<[ev |-> "modelChange", val |-> Null]>>
                          ELSE <<>>)
               ELSE /\ currentModel' = currentModel
                    /\ value' = value
                    /\ emitted' = <<>>]_vars

\* Enter was pressed in the emptied input while a model was held: the
\* model was reset and fetch() entered.
C17_Witness ==
  /\ lastOp.op = "onKey"
  /\ lastOp.key = 13
  /\ inputText = <<>>
  /\ currentModel = Null
  /\ emitted = <<[ev |-> "modelChange", val |-> Null]>>
  /\ path = <<"fetch">>
  /\ autocompleteList = Some(<<>>)

\* The promises of fetch() that have rejected.
RejectedFetches ==
  {i \in 1..Len(inflight) :
     inflight[i].kind = "fetch" /\ inflight[i].settled = "rejected"}

\* C18: when the promise of a dispatched fetch rejects, no callback runs:
\* autocompleteList, noSuggestions, returnType and requestsInQueue stay as
\* they were.  The increment of a rejected fetch is never taken back: from
\* then on requestsInQueue is at least the number of rejected fetches, so
\* above 0.
C18_RejectedFetch ==
  [][/\ (lastOp'.op = "reject" /\ lastOp'.req.kind = "fetch") =>
          /\ UNCHANGED fields
          /\ emitted' = <<>>
     /\ RejectedFetches' # {} =>
          /\ requestsInQueue' > 0
          /\ requestsInQueue' >= Cardinality(RejectedFetches')]_vars

\* A fetch rejected, a later one resolved, none is pending: the counter
\* still counts the rejected one.
C18_Witness ==
  /\ lastOp.op = "then"
  /\ lastOp.req.kind = "fetch"
  /\ Len(inflight) = 1
  /\ RejectedFetches = {1}
  /\ requestsInQueue = 1
  /\ autocompleteList = Some(<<O1, O2, O3>>)

\* C19: returnType stays unset as long as no handler obtains a non-empty
\* list; while it is unset no handler emits modelChange with a value other
\* than null, neither an assignment to [model] nor a selection, and an
\* assignment of null to a model that is not null emits modelChange(null).
C19_NoKindNoChangeNotice ==
  [][/\ (returnType = NoType /\ ObtainedList' = <<>>) => returnType' = NoType
     /\ returnType' = NoType =>
          /\ \A i \in 1..Len(emitted') :
               emitted'[i].ev = "modelChange" => emitted'[i].val = Null
          /\ (lastOp'.op = "model" /\ lastOp'.val = Null /\ currentModel # Null) =>
               emitted' = <<[ev |-> "modelChange", val |-> Null]>>]_vars

\* An object was assigned to [model] after an empty array had been bound:
\* it is stored and nothing was emitted.
C19_Witness ==
  /\ lastOp.op = "model"
  /\ lastOp.val = O1
  /\ storedItems = Some(<<>>)
  /\ returnType = NoType
  /\ currentModel = O1
  /\ emitted = <<>>

\* C20 as stated: with clearAfterSearch, selecting a candidate that is not
\* null, whose typeof equals returnType and that differs from the model
\* emits exactly modelChange(selected), optionSelected(selected),
\* modelChange(null), in this order.
C20_SelectionNotificationOrder ==
  [][(/\ lastOp'.op = "autocompleteSelected"
      /\ clearAfterSearch
      /\ lastOp'.val # Null
      /\ TypeOf(lastOp'.val) = returnType
      /\ lastOp'.val # currentModel) =>
       emitted' = <<[ev |-> "modelChange", val |-> lastOp'.val],
                    [ev |-> "optionSelected", val |-> lastOp'.val],
                    [ev |-> "modelChange", val |-> Null]>>]_vars
====
